---- MODULE Spec2Model ----
(***************************************************************************)
(* Model of the league-of-legends-customs bot:                             *)
(*   interactions/create_teams_v2.py   seeding, role assignment, team search*)
(*   interactions/upload_game_results.py   rating update, confirm/cancel    *)
(*   main.py                           one thread per interaction           *)
(*                                                                         *)
(* Python lists are 0-based; a team (5 players) and ROLES are modelled as  *)
(* TLA+ sequences indexed 1..5, the roster keeps the indices 0..9 of       *)
(* range(10).                                                              *)
(***************************************************************************)
EXTENDS Integers, Sequences, FiniteSets, TLC

VARIABLES
    players_db,        \* db.collection("players"): name -> document or Absent
    roster_json,       \* the roster_json option of a create_teams command
    tie,               \* which optimum linear_sum_assignment returns on ties
    pc,                \* position of create_teams_v2.run
    players,           \* run: players = load_roster(roster_json)
    team_splits,       \* find_best_teams: sorted list of (deviation, team1_indices)
    split_i,           \* find_best_teams: position of the for loop in team_splits
    best_assignment,   \* find_best_teams locals
    best_delta,
    best_totals,
    best_offrole_diff,
    checked,
    valid_found,
    last_eval,         \* t1/t2 results of the iteration just executed
    result,            \* what run sent back: an assignment or an error
    pending,           \* db.collection("pending_confirmations"): id -> document
    game_history,      \* db.collection("game_history"): the documents written
    issued,            \* confirmation ids whose Confirm/Cancel buttons were sent
    th,                \* the threads main.py started, one per interaction
    call_team,         \* assign_roles_optimally: the team of a call on its own
    bump,              \* the rating of that team that a second call has raised
    assigned,          \* what the call on call_team returned
    assigned_raised    \* what the call on the team with the raised rating returned

tvars == <<roster_json, tie, pc, players, team_splits, split_i, best_assignment,
           best_delta, best_totals, best_offrole_diff, checked, valid_found,
           last_eval, result, call_team, bump, assigned, assigned_raised>>
avars == <<call_team, bump, assigned, assigned_raised>>
svars == <<pending, game_history, issued, th>>
vars == <<players_db, tvars, svars>>

-----------------------------------------------------------------------------
(* Bounds of the model *)

\* roster entries are drawn from the profile kinds 1..NumKinds
NumKinds == 4
\* interactions (threads) of one run of the results bot
NumThreads == 3
\* match outcomes 1..NumOutcomes can be uploaded
NumOutcomes == 3
\* create_teams commands (threads) that load a roster concurrently
NumLoaders == 2
\* uploads, and after them button clicks, where two matches are pending
NumUploads == 2
NumClicks == 2

-----------------------------------------------------------------------------
(* Constants of create_teams_v2.py *)

ROLES == <<"TOP", "JUNGLE", "MID", "ADC", "SUPPORT">>

RANK_MMR_DEFAULTS ==
    [IRON |-> 0, BRONZE |-> 500, SILVER |-> 1000, GOLD |-> 1500,
     PLATINUM |-> 2000, EMERALD |-> 2500, DIAMOND |-> 3000, MASTER |-> 3500,
     GRANDMASTER |-> 4000, CHALLENGER |-> 4500]

DIVISION_OFFSET == ("1" :> 375) @@ ("2" :> 250) @@ ("3" :> 125) @@ ("4" :> 0)

ROLE_PENALTIES == [PRIMARY |-> 0, SECONDARY |-> -200, OFFROLE |-> -500]

PRIMARY_BONUS == 300
SECONDARY_BONUS == 100
OFFROLE_THRESHOLD == 500
ROSTER_SIZE == 10
TEAM_SIZE == 5
EARLY_EXIT_DELTA == 100

\* float("inf"): larger than every delta and off-role difference
Inf == 1000000000
\* Python None
None == <<>>
\* a document that does not exist (doc.exists is False)
\* a value that is held where None may be held: an empty dict, or 0, is not None
Some(d) == <<d>>

Absent == [exists |-> FALSE]

-----------------------------------------------------------------------------
(* Python helpers *)

\* dict.get(key, default)
DictGet(d, key, default) == IF key \in DOMAIN d THEN d[key] ELSE default

Abs(x) == IF x < 0 THEN -x ELSE x

\* str.upper() on the words that occur in roster entries
Upper(s) ==
    CASE s = "Top" -> "TOP"
      [] s = "Jungle" -> "JUNGLE"
      [] s = "Mid" -> "MID"
      [] s = "Adc" -> "ADC"
      [] s = "Support" -> "SUPPORT"
      [] s = "Fill" -> "FILL"
      [] s = "Iron" -> "IRON"
      [] s = "Platinum" -> "PLATINUM"
      [] s = "Silver" -> "SILVER"
      [] s = "Gold" -> "GOLD"
      [] s = "Challenger" -> "CHALLENGER"
      [] s = "Unranked" -> "UNRANKED"
      [] OTHER -> s

\* the element of a one-element set.  The({e(x) : x \in {v}}) is e(v) with v
\* evaluated once, however often e uses it.
The(S) == CHOOSE r \in S : TRUE

\* sum(s[1..n])
RECURSIVE SumTo(_, _)
SumTo(s, n) == IF n = 0 THEN 0 ELSE s[n] + SumTo(s, n - 1)

SumSeq(s) == The({SumTo(v, Len(v)) : v \in {s}})

\* max(s)
MaxSeq(s) ==
    The({v[CHOOSE k \in 1..Len(v) : \A h \in 1..Len(v) : v[k] >= v[h]] : v \in {s}})

RECURSIVE Concat(_)
Concat(ss) == IF ss = <<>> THEN <<>> ELSE Head(ss) \o Concat(Tail(ss))

Prepend(x, ss) == [k \in 1..Len(ss) |-> <<x>> \o ss[k]]

RECURSIVE SortedSeq(_)
SortedSeq(S) ==
    IF S = {} THEN <<>>
    ELSE LET m == CHOOSE x \in S : \A y \in S : x <= y
         IN <<m>> \o SortedSeq(S \ {m})

-----------------------------------------------------------------------------
(* class Player *)

Player(name, primary, secondary, mmr_map) ==
    [name |-> name, primary |-> primary, secondary |-> secondary,
     mmr_map |-> mmr_map,
     best_mmr |-> MaxSeq([j \in 1..Len(ROLES) |-> mmr_map[ROLES[j]]])]

\* the test with a strict comparison
is_offrole_Strict(player, assigned_role) ==
    player.best_mmr - player.mmr_map[assigned_role] > OFFROLE_THRESHOLD

is_offrole(player, assigned_role) ==
    player.best_mmr - player.mmr_map[assigned_role] >= OFFROLE_THRESHOLD

-----------------------------------------------------------------------------
(* load_roster: the seeding of a participant that has no document *)

\* a rank text is modelled as the list of its words, which is what
\* str.split() makes of it
SeedMMR(p, primary, secondary) ==
    LET rank_parts == DictGet(p, "rank", <<"Silver", "3">>)
        rank == Upper(rank_parts[1])
        division == IF Len(rank_parts) > 1 THEN rank_parts[2] ELSE "3"
        base_mmr == DictGet(RANK_MMR_DEFAULTS, rank, RANK_MMR_DEFAULTS["SILVER"])
                    + DictGet(DIVISION_OFFSET, division, 100)
        penalty(role) ==
            IF role = primary \/ (primary = "FILL" \/ secondary = "FILL")
            THEN 0
            ELSE IF role = secondary THEN ROLE_PENALTIES["SECONDARY"]
            ELSE ROLE_PENALTIES["OFFROLE"]
    IN [j \in 1..Len(ROLES) |-> base_mmr + penalty(ROLES[j])]

SeedMap(p, primary, secondary) ==
    LET seed == SeedMMR(p, primary, secondary)
    IN [r \in {ROLES[j] : j \in 1..Len(ROLES)} |->
            seed[CHOOSE j \in 1..Len(ROLES) : ROLES[j] = r]]

-----------------------------------------------------------------------------
(* assign_roles_optimally *)

\* the entry without the negation that turns the maximisation into a
\* minimisation
CostEntry_NotNegated(player, role) ==
    LET mmr_value == player.mmr_map[role]
    IN  IF role = player.primary THEN mmr_value + PRIMARY_BONUS
        ELSE IF role = player.secondary THEN mmr_value + SECONDARY_BONUS
        ELSE mmr_value

\* the 5x5 matrix handed to linear_sum_assignment (negative: it minimises)
CostEntry(player, role) ==
    LET mmr_value == player.mmr_map[role]
    IN  IF role = player.primary THEN -(mmr_value + PRIMARY_BONUS)
        ELSE IF role = player.secondary THEN -(mmr_value + SECONDARY_BONUS)
        ELSE -mmr_value

\* the matrix of the ratings alone, without the preference bonuses
cost_matrix_NoBonus(tm) ==
    [i \in 1..TEAM_SIZE |-> [j \in 1..Len(ROLES) |-> -tm[i].mmr_map[ROLES[j]]]]

cost_matrix(tm) ==
    [i \in 1..TEAM_SIZE |-> [j \in 1..Len(ROLES) |-> CostEntry(tm[i], ROLES[j])]]

\* the assignments of rows to distinct columns, in lexicographic order
RECURSIVE PermsOf(_)
PermsOf(S) ==
    IF S = {} THEN << <<>> >>
    ELSE LET xs == SortedSeq(S)
         IN Concat([k \in 1..Len(xs) |-> Prepend(xs[k], PermsOf(S \ {xs[k]}))])

PermSeq == PermsOf(1..TEAM_SIZE)

\* total cost of giving row i the column col[i], for the five rows
PermCost(cost, col) ==
    cost[1][col[1]] + cost[2][col[2]] + cost[3][col[3]] + cost[4][col[4]]
    + cost[5][col[5]]

\* scipy.optimize.linear_sum_assignment on a square matrix: row_ind is
\* 0..n-1 and col_ind a column assignment of minimum total cost.  Which of
\* several minimum assignments it returns is fixed by the solver, not by
\* this repository; tie selects the first or the last one.
linear_sum_assignment(cost, t) ==
    The({The({The({
        IF t = "first"
        THEN PermSeq[CHOOSE k \in 1..Len(PermSeq) :
                costs[k] = lowest /\ \A h \in 1..(k - 1) : costs[h] # lowest]
        ELSE PermSeq[CHOOSE k \in 1..Len(PermSeq) :
                costs[k] = lowest /\ \A h \in (k + 1)..Len(PermSeq) : costs[h] # lowest]
        : lowest \in {CHOOSE c \in {costs[k] : k \in 1..Len(PermSeq)} :
                         \A k \in 1..Len(PermSeq) : c <= costs[k]}})
        : costs \in {[k \in 1..Len(PermSeq) |-> PermCost(cm, PermSeq[k])]}})
        : cm \in {cost}})

\* the loop over zip(row_ind, col_ind) that builds the result
BuildResult(team, col_ind) ==
    LET role_assignment ==
            [i \in 1..TEAM_SIZE |->
                [player |-> team[i], role |-> ROLES[col_ind[i]],
                 mmr |-> team[i].mmr_map[ROLES[col_ind[i]]]]]
    IN [role_assignment |-> role_assignment,
        total_mmr |-> SumSeq([i \in 1..TEAM_SIZE |-> role_assignment[i].mmr]),
        offrole_count |->
            Cardinality({i \in 1..TEAM_SIZE :
                is_offrole(role_assignment[i].player, role_assignment[i].role)})]

assign_roles_optimally(team, t) ==
    The({The({BuildResult(tm, col_ind)
        : col_ind \in {linear_sum_assignment(cost_matrix(tm), t)}})
        : tm \in {team}})

-----------------------------------------------------------------------------
(* load_roster *)

\* the Player built for one roster entry p whose document is doc
LoadedPlayer(p, doc) ==
    LET name == p["ign"]
        primary == Upper(DictGet(p, "primary role", "Fill"))
        secondary == Upper(DictGet(p, "secondary role", "Fill"))
    IN  IF doc.exists
        THEN Player(name, primary, secondary, doc.mmr_map)
        ELSE Player(name, primary, secondary, SeedMap(p, primary, secondary))

\* the document doc_ref.set(...) writes for a participant without one
SeedDoc(p) ==
    LET primary == Upper(DictGet(p, "primary role", "Fill"))
        secondary == Upper(DictGet(p, "secondary role", "Fill"))
    IN [exists |-> TRUE, name |-> p["ign"], primary |-> primary,
        secondary |-> secondary, mmr_map |-> SeedMap(p, primary, secondary)]

\* load_roster run to completion by one thread: the store after it and the
\* list of players it returns
RECURSIVE load_roster(_, _)
load_roster(db, roster) ==
    IF roster = <<>> THEN [db |-> db, players |-> <<>>]
    ELSE LET p == Head(roster)
             doc == db[p["ign"]]
             db2 == IF doc.exists THEN db
                    ELSE [db EXCEPT ![p["ign"]] = SeedDoc(p)]
             rest == load_roster(db2, Tail(roster))
         IN [db |-> rest.db,
             players |-> <<LoadedPlayer(p, doc)>> \o rest.players]

-----------------------------------------------------------------------------
(* create_teams.py: the earlier command, its players and its role search *)

V1_RANK_MMR_DEFAULTS ==
    [IRON |-> 600, BRONZE |-> 900, SILVER |-> 1200, GOLD |-> 1500,
     PLATINUM |-> 1800, EMERALD |-> 2100, DIAMOND |-> 2550, MASTER |-> 3000,
     GRANDMASTER |-> 3300, CHALLENGER |-> 3600]

V1_DEFAULT_MMR == 1200

V1_DIVISION_OFFSET == ("1" :> 75) @@ ("2" :> 50) @@ ("3" :> 25) @@ ("4" :> 0)

ROLE_PENALTY_MAP == [PRIMARY |-> 0, SECONDARY |-> -150, OFFROLE |-> -350]

V1_ROLES == <<"Top", "Jungle", "Mid", "ADC", "Support">>

PRIMARY_SCORE == 10
SECONDARY_SCORE == 5

\* str.capitalize() on the words that occur as role preferences: the first
\* letter in upper case, the others in lower case
Capitalize(s) ==
    CASE s \in {"Top", "TOP", "top"} -> "Top"
      [] s \in {"Jungle", "JUNGLE", "jungle"} -> "Jungle"
      [] s \in {"Mid", "MID", "mid"} -> "Mid"
      [] s \in {"Adc", "ADC", "adc"} -> "Adc"
      [] s \in {"Support", "SUPPORT", "support"} -> "Support"
      [] s \in {"Fill", "FILL", "fill"} -> "Fill"
      [] OTHER -> s

\* Player.__init__; db_mmr is None or Some(rating), and a rating 0 is falsy
V1_Player(name, primary, secondary, rank, db_mmr) ==
    [name |-> name, primary |-> Capitalize(primary),
     secondary |-> Capitalize(secondary), rank_str |-> Upper(rank),
     base_mmr |-> IF db_mmr # None /\ db_mmr # Some(0)
                  THEN db_mmr[1]
                  ELSE DictGet(V1_RANK_MMR_DEFAULTS, Upper(rank), V1_DEFAULT_MMR)]

get_effective_stats(p, assigned_role) ==
    LET penalty == IF assigned_role = p.primary THEN ROLE_PENALTY_MAP["PRIMARY"]
                   ELSE IF assigned_role = p.secondary
                        THEN ROLE_PENALTY_MAP["SECONDARY"]
                        ELSE ROLE_PENALTY_MAP["OFFROLE"]
    IN [base |-> p.base_mmr, penalty |-> penalty, effective |-> p.base_mmr + penalty]

\* sync_players, for one roster entry p whose document is doc: the documents
\* load_roster writes have no "mmr" field
V1_LoadedPlayer(p, doc) ==
    LET name == p["ign"]
        primary == DictGet(p, "primary role", "Fill")
        secondary == DictGet(p, "secondary role", "Fill")
        rank_parts == DictGet(p, "rank", <<"Silver", "4">>)
        rank_tier == Upper(rank_parts[1])
        rank_div == IF Len(rank_parts) > 1 THEN rank_parts[2] ELSE "4"
        seed_mmr == DictGet(V1_RANK_MMR_DEFAULTS, rank_tier, V1_DEFAULT_MMR)
                    + DictGet(V1_DIVISION_OFFSET, rank_div, 0)
    IN  IF doc.exists
        THEN V1_Player(name, primary, secondary, rank_tier,
                       IF "mmr" \in DOMAIN doc THEN Some(doc["mmr"]) ELSE None)
        ELSE V1_Player(name, primary, secondary, rank_tier, Some(seed_mmr))

\* the preference score of giving player i the role role_perm[i]
PrefScore(team_players, role_perm) ==
    SumSeq([i \in 1..Len(role_perm) |->
        IF V1_ROLES[role_perm[i]] = team_players[i].primary THEN PRIMARY_SCORE
        ELSE IF V1_ROLES[role_perm[i]] = team_players[i].secondary
             THEN SECONDARY_SCORE
             ELSE 0])

\* the loop over itertools.permutations(ROLES), which yields the permutations
\* in lexicographic order of the positions: the first permutation of the
\* highest preference score is kept; then the sort by role and the sum
calculate_best_roles_for_team(team_players) ==
    The({The({The({
        [assignment |->
            [j \in 1..Len(V1_ROLES) |->
                LET i == CHOOSE i \in 1..Len(best) : best[i] = j
                    stats == get_effective_stats(tp[i], V1_ROLES[j])
                IN [role |-> V1_ROLES[j], p |-> tp[i], base |-> stats.base,
                    penalty |-> stats.penalty, effective |-> stats.effective]],
         total_mmr |->
            SumSeq([j \in 1..Len(V1_ROLES) |->
                LET i == CHOOSE i \in 1..Len(best) : best[i] = j
                IN get_effective_stats(tp[i], V1_ROLES[j]).effective])]
        : best \in {PermSeq[CHOOSE k \in 1..Len(PermSeq) :
                        /\ \A h \in 1..Len(PermSeq) : scores[k] >= scores[h]
                        /\ \A h \in 1..(k - 1) : scores[h] < scores[k]]}})
        : scores \in {[k \in 1..Len(PermSeq) |-> PrefScore(tp, PermSeq[k])]}})
        : tp \in {team_players}})

-----------------------------------------------------------------------------
(* find_best_teams *)

\* itertools.combinations(range(n), k) restricted to first element >= lo,
\* in the order itertools yields them
RECURSIVE CombsFrom(_, _, _)
CombsFrom(lo, k, n) ==
    IF k = 0 THEN << <<>> >>
    ELSE Concat([i \in 1..(n - k - lo + 1) |->
                    Prepend(lo + i - 1, CombsFrom(lo + i, k - 1, n))])

Combos == CombsFrom(0, TEAM_SIZE, ROSTER_SIZE)

Range(s) == {s[k] : k \in 1..Len(s)}

\* deviation = abs(team1_mmr - total_mmr / 2) is a float with a possible
\* half; it is kept doubled, abs(2 * team1_mmr - total_mmr), which orders
\* and compares the same
Deviation(ps, team1_indices) ==
    LET total_mmr == SumSeq([k \in 1..ROSTER_SIZE |-> ps[k - 1].best_mmr])
        team1_mmr == SumSeq([k \in 1..TEAM_SIZE |-> ps[team1_indices[k]].best_mmr])
    IN Abs(2 * team1_mmr - total_mmr)

\* list.sort() of (deviation, team1_indices) tuples: ascending deviation,
\* equal deviations by ascending index tuple.  The list is built in
\* ascending index-tuple order, so sorting groups it by deviation.
SortSplits(splits) ==
    The({The({Concat([d \in 1..Len(devs) |->
                        SelectSeq(sp, LAMBDA s : s[1] = devs[d])])
        : devs \in {SortedSeq({sp[k][1] : k \in 1..Len(sp)})}})
        : sp \in {splits}})

TeamSplits(ps) ==
    SortSplits([k \in 1..Len(Combos) |-> <<Deviation(ps, Combos[k]), Combos[k]>>])

Team1(ps, team1_indices) == [k \in 1..TEAM_SIZE |-> ps[team1_indices[k]]]

Team2(ps, team1_indices) ==
    LET others == SortedSeq((0..(ROSTER_SIZE - 1)) \ Range(team1_indices))
    IN [k \in 1..Len(others) |-> ps[others[k]]]

\* one iteration of the for loop up to the comparison with the best so far
EvalTeams(ps, team1_indices, t) ==
    The({[t1 |-> t1, t2 |-> t2,
          delta |-> Abs(t1.total_mmr - t2.total_mmr),
          offrole_diff |-> Abs(t1.offrole_count - t2.offrole_count)]
        : t1 \in {assign_roles_optimally(Team1(ps, team1_indices), t)},
          t2 \in {assign_roles_optimally(Team2(ps, team1_indices), t)}})

\* the comparison without its elif branch: a smaller delta at an equal
\* off-role difference is not taken
IsBetter_OffroleOnly(e, bod, bd) == e.offrole_diff < bod

IsBetter(e, bod, bd) ==
    \/ e.offrole_diff < bod
    \/ e.offrole_diff = bod /\ e.delta < bd

\* the early exit without the bound on delta
EarlyExit_AnyDelta(e) == e.offrole_diff = 0

EarlyExit(e) == e.delta <= EARLY_EXIT_DELTA /\ e.offrole_diff = 0

-----------------------------------------------------------------------------
(* create_teams_v2.run, one create_teams command *)

\* the size test of run with only short rosters refused
WrongSize_TooFewOnly(ps) == Len(ps) < ROSTER_SIZE

\* run, line 280: len(players) != 10
WrongSize(ps) == Len(ps) # ROSTER_SIZE

ErrorResult(msg) == [kind |-> "error", msg |-> msg]

\* run up to the for loop of find_best_teams
RunLoad ==
    /\ pc = "run"
    /\ \E lr \in {load_roster(players_db, roster_json)} :
       \E ps \in {[i \in 0..(Len(lr.players) - 1) |-> lr.players[i + 1]]} :
          /\ players_db' = lr.db
          /\ players' = ps
          /\ IF WrongSize(lr.players)
             THEN /\ pc' = "done"
                  /\ result' = ErrorResult("Roster must contain exactly 10 players.")
                  /\ UNCHANGED <<team_splits, split_i>>
             ELSE /\ pc' = "loop"
                  /\ team_splits' = TeamSplits(ps)
                  /\ split_i' = 1
                  /\ UNCHANGED result
    /\ best_assignment' = None
    /\ best_delta' = Inf
    /\ best_totals' = <<0, 0>>
    /\ best_offrole_diff' = Inf
    /\ checked' = 0
    /\ valid_found' = 0
    /\ UNCHANGED <<roster_json, tie, last_eval, svars, avars>>

\* one iteration of the for loop over team_splits
EvalSplit ==
    /\ pc = "loop"
    /\ \E e \in {EvalTeams(players, team_splits[split_i][2], tie)} :
       LET is_better == IsBetter(e, best_offrole_diff, best_delta)
           stop == is_better /\ EarlyExit(e)
       IN /\ last_eval' = e
          /\ checked' = checked + 1
          /\ IF is_better
             THEN /\ valid_found' = valid_found + 1
                  /\ best_delta' = e.delta
                  /\ best_offrole_diff' = e.offrole_diff
                  /\ best_assignment' = <<e.t1.role_assignment, e.t2.role_assignment>>
                  /\ best_totals' = <<e.t1.total_mmr, e.t2.total_mmr>>
             ELSE UNCHANGED <<valid_found, best_delta, best_offrole_diff,
                              best_assignment, best_totals>>
          /\ IF stop \/ split_i = Len(team_splits)
             THEN pc' = "return" /\ UNCHANGED split_i
             ELSE pc' = "loop" /\ split_i' = split_i + 1
    /\ UNCHANGED <<players_db, roster_json, tie, players, team_splits, result, svars,
                   avars>>

\* find_best_teams returns; run checks the assignment and answers
Return ==
    /\ pc = "return"
    /\ pc' = "done"
    /\ result' = IF best_assignment = None
                 THEN ErrorResult("Could not find valid team assignment with constraints.")
                 ELSE [kind |-> "teams", assignment |-> best_assignment,
                       gap |-> best_delta, totals |-> best_totals]
    /\ UNCHANGED <<players_db, roster_json, tie, players, team_splits, split_i,
                   best_assignment, best_delta, best_totals, best_offrole_diff,
                   checked, valid_found, last_eval, svars, avars>>

-----------------------------------------------------------------------------
(* The rosters a create_teams command is checked with *)

NameOf(i) ==
    <<"p0", "p1", "p2", "p3", "p4", "p5", "p6", "p7", "p8", "p9", "p10">>[i + 1]

Names == {NameOf(i) : i \in 0..ROSTER_SIZE}

\* roster entry of profile kind k
Entry(k, name) ==
    LET rank == CASE k = 1 -> <<"Silver", "3">>
                  [] k = 2 -> <<"Silver", "2">>
                  [] k = 3 -> <<"Silver", "3">>
                  [] k = 4 -> <<"Silver", "5">>
                  [] OTHER -> <<"Gold", "1">>
        primary == CASE k \in {1, 4} -> "Fill"
                     [] k \in {2, 3} -> "Top"
                     [] OTHER -> "Mid"
        secondary == CASE k \in {1, 4} -> "Fill"
                       [] k \in {2, 3} -> "Jungle"
                       [] OTHER -> "Adc"
    IN ("ign" :> name) @@ ("rank" :> rank) @@ ("primary role" :> primary)
       @@ ("secondary role" :> secondary)

BaseKinds == {1, 3}

\* ten entries of kind b, with the entries 0, 1 and 9 of kinds a0, a1, a9
MakeRoster(b, a0, a1, a9) ==
    [k \in 1..ROSTER_SIZE |->
        Entry(CASE k = 1 -> a0 [] k = 2 -> a1 [] k = ROSTER_SIZE -> a9 [] OTHER -> b,
              NameOf(k - 1))]

Rosters ==
    {MakeRoster(q[1], q[2], q[3], q[4]) :
        q \in {q \in BaseKinds \X (1..NumKinds) \X (1..NumKinds) \X (1..NumKinds) :
                  q[2] <= q[3] /\ q[3] <= q[4]}}

\* rosters that are not of ten entries: none, one too few, one too many
OtherRosters ==
    {<<>>,
     [k \in 1..(ROSTER_SIZE - 1) |-> Entry(1, NameOf(k - 1))],
     [k \in 1..(ROSTER_SIZE + 1) |-> Entry(1, NameOf(k - 1))]}

TiePolicies == {"first", "last"}

\* no call of assign_roles_optimally on its own
NoAssignCall ==
    /\ call_team = <<>>
    /\ bump = None
    /\ assigned = None
    /\ assigned_raised = None

Init ==
    /\ players_db = [n \in Names |-> Absent]
    /\ roster_json \in Rosters \cup OtherRosters
    /\ tie \in TiePolicies
    /\ pc = "run"
    /\ players = <<>>
    /\ team_splits = <<>>
    /\ split_i = 0
    /\ best_assignment = None
    /\ best_delta = Inf
    /\ best_totals = <<0, 0>>
    /\ best_offrole_diff = Inf
    /\ checked = 0
    /\ valid_found = 0
    /\ last_eval = None
    /\ result = None
    /\ pending = <<>>
    /\ game_history = {}
    /\ issued = {}
    /\ th = <<>>
    /\ NoAssignCall

Next == RunLoad \/ EvalSplit \/ Return

Spec == Init /\ [][Next]_vars

-----------------------------------------------------------------------------
(* upload_game_results.py: pure parts *)

DEFAULT_MMR == 1500
BASE_GAIN == 25
MAX_BONUS == 35
LOSS == 25

Min2(a, b) == IF a < b THEN a ELSE b
Max2(a, b) == IF a > b THEN a ELSE b

\* a dict as a function with a string domain; {} is the empty function
EmptyDict == <<>>

\* d[key] = value of a Python dict: a later assignment replaces an earlier one
DictSet(d, key, value) == (key :> value) @@ d

\* min(35, max(0, mmr_diff)) without the cap of 35
WinnerGain_NoCap(winner_mmr, opponent_mmr) ==
    BASE_GAIN + Max2(0, (opponent_mmr - winner_mmr) \div 100)

\* lines 310-312: mmr_diff // 100 is Python's floor division
WinnerGain(winner_mmr, opponent_mmr) ==
    LET mmr_diff == opponent_mmr - winner_mmr
        bonus == Min2(MAX_BONUS, Max2(0, mmr_diff \div 100))
    IN BASE_GAIN + bonus

\* the same-role loser, or else the first loser of the team
Opponent_AnyLoser(losing_team, winner_role) ==
    LET js == {j \in 1..Len(losing_team) : losing_team[j].role = winner_role}
    IN IF losing_team = <<>> THEN None
       ELSE IF js = {} THEN losing_team[1]
       ELSE losing_team[CHOOSE j \in js : \A k \in js : j <= k]

\* next((p for p in losing_team if p["role"] == winner_role), None)
Opponent(losing_team, winner_role) ==
    LET js == {j \in 1..Len(losing_team) : losing_team[j].role = winner_role}
    IN IF js = {} THEN None
       ELSE losing_team[CHOOSE j \in js : \A k \in js : j <= k]

\* lines 292-331: mmr_changes after the winners 1..k have been visited
RECURSIVE ChangesAfter(_, _, _, _)
ChangesAfter(k, winning_team, losing_team, player_mmrs) ==
    IF k = 0 THEN EmptyDict
    ELSE LET prev == ChangesAfter(k - 1, winning_team, losing_team, player_mmrs)
             winner == winning_team[k]
             winner_name == winner.ign
             winner_role == winner.role
             opponent == Opponent(losing_team, winner_role)
         IN IF opponent = None THEN prev
            ELSE LET opponent_name == opponent.ign
                     winner_mmr == DictGet(player_mmrs[winner_name], winner_role,
                                           DEFAULT_MMR)
                     opponent_mmr == DictGet(player_mmrs[opponent_name],
                                             winner_role, DEFAULT_MMR)
                     winner_gain == WinnerGain(winner_mmr, opponent_mmr)
                 IN DictSet(
                      DictSet(prev, winner_name,
                              [role |-> winner_role, change |-> winner_gain,
                               old_mmr |-> winner_mmr,
                               new_mmr |-> winner_mmr + winner_gain,
                               opponent |-> opponent_name,
                               opponent_mmr |-> opponent_mmr]),
                      opponent_name,
                      [role |-> winner_role, change |-> -LOSS,
                       old_mmr |-> opponent_mmr,
                       new_mmr |-> opponent_mmr - LOSS,
                       opponent |-> winner_name,
                       opponent_mmr |-> winner_mmr])

\* lines 274-289: the names of the players whose role is a swap, in order
RoleSwaps(all, player_data) ==
    LET swapped(p) == LET data == player_data[p.ign]
                      IN /\ p.role # data.primary
                         /\ p.role # data.secondary
                         /\ data.primary # "FILL"
    IN [k \in 1..Len(SelectSeq(all, swapped)) |->
            [player |-> SelectSeq(all, swapped)[k].ign,
             actual |-> SelectSeq(all, swapped)[k].role]]

\* lines 274-333, once every document has been read into player_data
calculate_mmr_changes(winning_team, losing_team, player_data) ==
    LET player_mmrs == [n \in DOMAIN player_data |-> player_data[n].mmr_map]
    IN [mmr_changes |-> ChangesAfter(Len(winning_team), winning_team,
                                     losing_team, player_mmrs),
        role_swaps |-> RoleSwaps(winning_team \o losing_team, player_data)]

\* run, lines 434-440: without a delta map the command ends with an error
\* message; this variant goes on to store the confirmation
AfterCalc_NoReturn(mmr_changes) == "store"

AfterCalc(mmr_changes) ==
    IF mmr_changes = None THEN "done" ELSE "store"

-----------------------------------------------------------------------------
(* main.py: one thread per interaction; upload_game_results.py handlers *)

Threads == 1..NumThreads

IdleThread ==
    [kind |-> "none", pc |-> "idle", outcome |-> "",
     winning_team |-> <<>>, losing_team |-> <<>>, i |-> 0,
     player_data |-> EmptyDict, mmr_changes |-> None, role_swaps |-> <<>>,
     confirmation_id |-> 0, confirmation_data |-> None,
     todo |-> {}, player_name |-> "", player_doc |-> Absent,
     success |-> TRUE, updated |-> {},
     roster |-> <<>>, loaded |-> <<>>]

\* a handler returns: its locals are gone; the interaction it served and the
\* message it sent remain
Returned(thread, outcome) ==
    [IdleThread EXCEPT !.kind = thread.kind, !.pc = "done",
                       !.outcome = outcome,
                       !.winning_team = thread.winning_team,
                       !.losing_team = thread.losing_team,
                       !.confirmation_id = thread.confirmation_id,
                       !.success = thread.success]

\* the thread of an upload_game_results command; analysis is the result of
\* analyze_screenshot_with_gemini (lines 417-428)
StartUpload(t, analysis) ==
    /\ th[t].pc = "idle"
    /\ \A u \in 1..(t - 1) : th[u].pc # "idle"
    /\ th' = [th EXCEPT ![t] =
                IF analysis.success
                THEN [@ EXCEPT !.kind = "upload", !.pc = "calc_get",
                               !.winning_team = analysis.winning_team,
                               !.losing_team = analysis.losing_team,
                               !.i = 1]
                ELSE Returned([@ EXCEPT !.kind = "upload"], "analysis_failed")]
    /\ UNCHANGED <<players_db, tvars, pending, game_history, issued>>

\* calculate_mmr_changes, lines 264-272: one document read; after the last
\* read the function computes its result and run tests it (line 434)
CalcGet(t) ==
    /\ th[t].pc = "calc_get"
    /\ LET all == th[t].winning_team \o th[t].losing_team
           player == all[th[t].i]
           doc == players_db[player.ign]
           player_data == DictSet(th[t].player_data, player.ign, doc)
       IN th' = [th EXCEPT ![t] =
                  IF ~doc.exists
                  THEN IF AfterCalc(None) = "done"
                       THEN Returned(@, "players_not_found")
                       ELSE [@ EXCEPT !.mmr_changes = None,
                                      !.pc = AfterCalc(None)]
                  ELSE IF th[t].i < Len(all)
                  THEN [@ EXCEPT !.player_data = player_data, !.i = @ + 1]
                  ELSE LET r == calculate_mmr_changes(th[t].winning_team,
                                    th[t].losing_team, player_data)
                       IN [@ EXCEPT !.player_data = player_data,
                                    !.mmr_changes = Some(r.mmr_changes),
                                    !.role_swaps = r.role_swaps,
                                    !.pc = AfterCalc(Some(r.mmr_changes))]]
    /\ UNCHANGED <<players_db, tvars, pending, game_history, issued>>

\* run, lines 442-469: the confirmation is stored under a fresh id and the
\* message with the Confirm and Cancel buttons is sent
Store(t) ==
    /\ th[t].pc = "store"
    /\ pending' = [pending EXCEPT ![t] =
                     [exists |-> TRUE,
                      winning_team |-> th[t].winning_team,
                      losing_team |-> th[t].losing_team,
                      mmr_changes |-> IF th[t].mmr_changes = None THEN None
                                      ELSE th[t].mmr_changes[1],
                      role_swaps |-> th[t].role_swaps]]
    /\ issued' = issued \cup {t}
    /\ th' = [th EXCEPT ![t] = Returned([@ EXCEPT !.confirmation_id = t],
                                         "awaiting_confirmation")]
    /\ UNCHANGED <<players_db, tvars, game_history>>

\* handle_confirmation, lines 499 and 510, with every click treated as a
\* confirm
Dispatch_AlwaysConfirm(action) == "confirm_get"

\* handle_confirmation, lines 499 and 510: where the action of the button leads
Dispatch(action) ==
    IF action = "cancel_results" THEN "cancel_delete" ELSE "confirm_get"

\* the thread of a button click, handle_confirmation lines 486-499, 510
StartButton(t, action, id) ==
    /\ th[t].pc = "idle"
    /\ \A u \in 1..(t - 1) : th[u].pc # "idle"
    /\ id \in issued
    /\ th' = [th EXCEPT ![t] =
                [@ EXCEPT !.kind = action, !.confirmation_id = id,
                          !.pc = Dispatch(action)]]
    /\ UNCHANGED <<players_db, tvars, pending, game_history, issued>>

\* lines 499-508
CancelDelete(t) ==
    /\ th[t].pc = "cancel_delete"
    /\ pending' = [pending EXCEPT ![th[t].confirmation_id] = Absent]
    /\ th' = [th EXCEPT ![t] = Returned(@, "cancelled")]
    /\ UNCHANGED <<players_db, tvars, game_history, issued>>

\* lines 512-529, and the start of commit_results_to_firestore
ConfirmGet(t) ==
    /\ th[t].pc = "confirm_get"
    /\ LET temp_doc == pending[th[t].confirmation_id]
       IN th' = [th EXCEPT ![t] =
                  IF ~temp_doc.exists
                  THEN Returned(@, "not_found")
                  ELSE [@ EXCEPT !.confirmation_data = temp_doc,
                                 !.todo = DOMAIN temp_doc.mmr_changes,
                                 !.pc = IF DOMAIN temp_doc.mmr_changes = {}
                                        THEN "finish" ELSE "commit_get"]]
    /\ UNCHANGED <<players_db, tvars, pending, game_history, issued>>

\* commit_results_to_firestore, lines 347-353: the next player of
\* mmr_changes.items() and the read of its document
CommitGet(t) ==
    /\ th[t].pc = "commit_get"
    /\ \E player_name \in th[t].todo :
         LET player_doc == players_db[player_name]
             left == th[t].todo \ {player_name}
         IN th' = [th EXCEPT ![t] =
                    IF player_doc.exists
                    THEN [@ EXCEPT !.player_name = player_name,
                                   !.player_doc = player_doc,
                                   !.pc = "commit_update"]
                    ELSE [@ EXCEPT !.todo = left,
                                   !.pc = IF left = {} THEN "finish"
                                          ELSE "commit_get"]]
    /\ UNCHANGED <<players_db, tvars, pending, game_history, issued>>

\* lines 363-385: the game_history document of a player
HistoryDoc(game_id, player_name, change_data, role_swaps) ==
    [game_id |-> game_id, player_name |-> player_name,
     role_played |-> change_data.role,
     was_role_swap |-> \E k \in DOMAIN role_swaps :
                          role_swaps[k].player = player_name,
     result |-> IF change_data.change > 0 THEN "WIN" ELSE "LOSS",
     mmr_before |-> change_data.old_mmr,
     mmr_after |-> change_data.new_mmr,
     mmr_change |-> change_data.change]

\* lines 356-360: the rating map that was read, with the role played
\* replaced, as player_ref.update writes it back
UpdatedDb(t) ==
    LET change_data == th[t].confirmation_data.mmr_changes[th[t].player_name]
        mmr_map == DictSet(th[t].player_doc.mmr_map, change_data.role,
                           change_data.new_mmr)
    IN [players_db EXCEPT ![th[t].player_name] = [@ EXCEPT !.mmr_map = mmr_map]]

\* lines 356-385: player_ref.update and history_ref.set both succeed. No
\* handler reads game_history, so the two writes are one step.
CommitUpdate(t) ==
    /\ th[t].pc = "commit_update"
    /\ players_db' = UpdatedDb(t)
    /\ LET player_name == th[t].player_name
           left == th[t].todo \ {player_name}
       IN /\ game_history' = game_history \cup
                {HistoryDoc(t, player_name,
                            th[t].confirmation_data.mmr_changes[player_name],
                            th[t].confirmation_data.role_swaps)}
          /\ th' = [th EXCEPT ![t] =
                      [@ EXCEPT !.todo = left,
                                !.updated = @ \cup {player_name},
                                !.pc = IF left = {} THEN "finish"
                                       ELSE "commit_get"]]
    /\ UNCHANGED <<tvars, pending, issued>>

\* lines 360, 389-394: player_ref.update raises, the function returns False
UpdateRaises(t) ==
    /\ th[t].pc = "commit_update"
    /\ th' = [th EXCEPT ![t] = [@ EXCEPT !.success = FALSE, !.pc = "finish"]]
    /\ UNCHANGED <<players_db, tvars, pending, game_history, issued>>

\* lines 360-371, 389-394: player_ref.update succeeds, history_ref.set
\* raises, the function returns False
HistoryRaises(t) ==
    /\ th[t].pc = "commit_update"
    /\ players_db' = UpdatedDb(t)
    /\ th' = [th EXCEPT ![t] =
                [@ EXCEPT !.success = FALSE, !.pc = "finish",
                          !.updated = @ \cup {th[t].player_name}]]
    /\ UNCHANGED <<tvars, pending, game_history, issued>>

\* handle_confirmation, lines 536-575: the summary or the error message, then
\* the pending confirmation is deleted
Finish(t) ==
    /\ th[t].pc = "finish"
    /\ pending' = [pending EXCEPT ![th[t].confirmation_id] = Absent]
    /\ th' = [th EXCEPT ![t] =
                Returned(@, IF th[t].success THEN "results_updated"
                            ELSE "error_updating")]
    /\ UNCHANGED <<players_db, tvars, game_history, issued>>

-----------------------------------------------------------------------------
(* The store and the match outcomes the results handlers are checked with *)

ResultNames == {"a", "b", "c", "d", "e"}

\* the roster entries the registered participants were seeded from
Registered ==
    ("a" :> <<"Gold", "4">>) @@ ("b" :> <<"Iron", "4">>)
    @@ ("c" :> <<"Platinum", "4">>) @@ ("d" :> <<"Challenger", "4">>)

RegisteredEntry(name) ==
    ("ign" :> name) @@ ("rank" :> Registered[name])
    @@ ("primary role" :> "Fill") @@ ("secondary role" :> "Fill")

ResultsDb ==
    [n \in ResultNames |->
        IF n \in DOMAIN Registered THEN SeedDoc(RegisteredEntry(n)) ELSE Absent]

Played(ign, role) == [ign |-> ign, role |-> role]

\* what analyze_screenshot_with_gemini extracted from screenshot k; e has no
\* profile
Outcome(k) ==
    CASE k = 1 -> [success |-> TRUE,
                   winning_team |-> <<Played("a", "TOP"), Played("b", "JUNGLE")>>,
                   losing_team |-> <<Played("c", "TOP"), Played("d", "MID")>>]
      [] k = 2 -> [success |-> TRUE,
                   winning_team |-> <<Played("a", "TOP"), Played("e", "JUNGLE")>>,
                   losing_team |-> <<Played("c", "TOP"), Played("d", "JUNGLE")>>]
      [] k = 3 -> [success |-> TRUE,
                   winning_team |-> <<Played("b", "JUNGLE"), Played("a", "TOP")>>,
                   losing_team |-> <<Played("d", "JUNGLE"), Played("e", "TOP")>>]
      [] k = 4 -> [success |-> TRUE,
                   winning_team |-> <<Played("e", "TOP"), Played("a", "JUNGLE")>>,
                   losing_team |-> <<Played("c", "TOP"), Played("d", "JUNGLE")>>]
      [] k = 5 -> [success |-> TRUE,
                   winning_team |-> <<Played("c", "TOP"), Played("d", "MID")>>,
                   losing_team |-> <<Played("a", "TOP"), Played("b", "JUNGLE")>>]
      [] OTHER -> [success |-> FALSE, winning_team |-> <<>>, losing_team |-> <<>>]

Analyses == {Outcome(k) : k \in 0..NumOutcomes}

ButtonActions == {"confirm_results", "cancel_results"}

\* no create_teams command is running to completion in this run
NoTeamSearch ==
    /\ roster_json = <<>>
    /\ tie = "first"
    /\ pc = "idle"
    /\ players = <<>>
    /\ team_splits = <<>>
    /\ split_i = 0
    /\ best_assignment = None
    /\ best_delta = Inf
    /\ best_totals = <<0, 0>>
    /\ best_offrole_diff = Inf
    /\ checked = 0
    /\ valid_found = 0
    /\ last_eval = None
    /\ result = None
    /\ NoAssignCall

InitResults ==
    /\ players_db = ResultsDb
    /\ pending = [id \in Threads |-> Absent]
    /\ game_history = {}
    /\ issued = {}
    /\ th = [t \in Threads |-> IdleThread]
    /\ NoTeamSearch

NextResults ==
    \E t \in Threads :
        \/ \E analysis \in Analyses : StartUpload(t, analysis)
        \/ CalcGet(t)
        \/ Store(t)
        \/ \E action \in ButtonActions, id \in Threads : StartButton(t, action, id)
        \/ CancelDelete(t)
        \/ ConfirmGet(t)
        \/ CommitGet(t)
        \/ CommitUpdate(t)
        \/ UpdateRaises(t)
        \/ HistoryRaises(t)
        \/ Finish(t)

SpecResults == InitResults /\ [][NextResults]_vars

-----------------------------------------------------------------------------
(* Two matches of the same participants awaiting confirmation *)

\* screenshot k of an evening in which a and c met twice, in different lanes
MatchOutcome(k) ==
    IF k = 1 THEN Outcome(1)
    ELSE [success |-> TRUE,
          winning_team |-> <<Played("a", "JUNGLE"), Played("b", "MID")>>,
          losing_team |-> <<Played("c", "JUNGLE"), Played("d", "TOP")>>]

MatchAnalyses == {MatchOutcome(k) : k \in 1..NumUploads}

MatchThreads == 1..(NumUploads + NumClicks)

InitMatches ==
    /\ players_db = ResultsDb
    /\ pending = [id \in MatchThreads |-> Absent]
    /\ game_history = {}
    /\ issued = {}
    /\ th = [t \in MatchThreads |-> IdleThread]
    /\ NoTeamSearch

\* the first NumUploads interactions are uploads, the later ones clicks
MatchUpload(t) ==
    /\ t <= NumUploads
    /\ \E analysis \in MatchAnalyses : StartUpload(t, analysis)

MatchClick(t) ==
    /\ t > NumUploads
    /\ \E action \in ButtonActions, id \in MatchThreads : StartButton(t, action, id)

NextMatches ==
    \E t \in MatchThreads :
        \/ MatchUpload(t)
        \/ CalcGet(t)
        \/ Store(t)
        \/ MatchClick(t)
        \/ CancelDelete(t)
        \/ ConfirmGet(t)
        \/ CommitGet(t)
        \/ CommitUpdate(t)
        \/ UpdateRaises(t)
        \/ HistoryRaises(t)
        \/ Finish(t)

SpecMatches == InitMatches /\ [][NextMatches]_vars

-----------------------------------------------------------------------------
(* An upload whose screenshot was read badly, and the clicks on its buttons *)

\* analyze_screenshot_with_gemini returns the roles as the vision model wrote
\* them (lines 136, 176-184): a lane under a name outside ROLES, teams whose
\* lanes do not meet, or a well-formed outcome
OddAnalyses ==
    {[success |-> TRUE,
      winning_team |-> <<Played("a", "BOT"), Played("b", "JUNGLE")>>,
      losing_team |-> <<Played("c", "BOT"), Played("d", "MID")>>],
     [success |-> TRUE,
      winning_team |-> <<Played("a", "TOP"), Played("b", "JUNGLE")>>,
      losing_team |-> <<Played("c", "MID"), Played("d", "ADC")>>],
     Outcome(1)}

OddThreads == {1, 2}

InitOdd ==
    /\ players_db = ResultsDb
    /\ pending = [id \in OddThreads |-> Absent]
    /\ game_history = {}
    /\ issued = {}
    /\ th = [t \in OddThreads |-> IdleThread]
    /\ NoTeamSearch

OddUpload(t) ==
    \E analysis \in OddAnalyses : StartUpload(t, analysis)

NextOdd ==
    \E t \in OddThreads :
        \/ OddUpload(t)
        \/ CalcGet(t)
        \/ Store(t)
        \/ \E action \in ButtonActions, id \in OddThreads : StartButton(t, action, id)
        \/ CancelDelete(t)
        \/ ConfirmGet(t)
        \/ CommitGet(t)
        \/ CommitUpdate(t)
        \/ UpdateRaises(t)
        \/ HistoryRaises(t)
        \/ Finish(t)

SpecOdd == InitOdd /\ [][NextOdd]_vars

-----------------------------------------------------------------------------
(* One upload_game_results command over a range of stored ratings *)

RatingValues == {-500, 0, 1475, 1500, 1599, 2000, 5000, 5085}

\* the store after earlier matches: the ratings of a and c for TOP and of b
\* and d for JUNGLE have moved away from their seeds
CalcDb(va, vb, vc, vd) ==
    [n \in ResultNames |->
        CASE n = "a" -> [ResultsDb[n] EXCEPT !.mmr_map["TOP"] = va]
          [] n = "b" -> [ResultsDb[n] EXCEPT !.mmr_map["JUNGLE"] = vb]
          [] n = "c" -> [ResultsDb[n] EXCEPT !.mmr_map["TOP"] = vc]
          [] n = "d" -> [ResultsDb[n] EXCEPT !.mmr_map["JUNGLE"] = vd]
          [] OTHER -> ResultsDb[n]]

CalcAnalyses ==
    {Outcome(k) : k \in 1..NumOutcomes} \cup
    {[success |-> TRUE,
      winning_team |-> <<Played("a", "TOP"), Played("b", "JUNGLE")>>,
      losing_team |-> <<Played("d", "JUNGLE"), Played("c", "TOP")>>]}

CalcThreads == {1}

InitCalc ==
    /\ \E va \in RatingValues, vc \in RatingValues :
       \E vb \in {0, 1500}, vd \in {1500, 4500} :
          players_db = CalcDb(va, vb, vc, vd)
    /\ pending = [id \in CalcThreads |-> Absent]
    /\ game_history = {}
    /\ issued = {}
    /\ th = [t \in CalcThreads |-> IdleThread]
    /\ NoTeamSearch

NextCalc ==
    \E t \in CalcThreads :
        \/ \E analysis \in CalcAnalyses : StartUpload(t, analysis)
        \/ CalcGet(t)
        \/ Store(t)

SpecCalc == InitCalc /\ [][NextCalc]_vars

-----------------------------------------------------------------------------
(* create_teams commands loading their rosters concurrently *)

Loaders == 1..NumLoaders

\* the size test of run, lines 280-281, once load_roster has returned
AfterLoad(thread) ==
    IF WrongSize(thread.loaded)
    THEN Returned(thread, "roster_size_error")
    ELSE [thread EXCEPT !.pc = "find_best_teams"]

\* load_roster after the entry i: the next entry, or the return to run
NextEntry(thread) ==
    IF thread.i < Len(thread.roster)
    THEN [thread EXCEPT !.i = @ + 1, !.pc = "load_get"]
    ELSE AfterLoad(thread)

\* the thread of a create_teams command, run lines 272-278
StartLoad(t, roster) ==
    /\ th[t].pc = "idle"
    /\ \A u \in 1..(t - 1) : th[u].pc # "idle"
    /\ th' = [th EXCEPT ![t] =
                IF roster = <<>>
                THEN AfterLoad([@ EXCEPT !.kind = "create_teams"])
                ELSE [@ EXCEPT !.kind = "create_teams", !.roster = roster,
                               !.i = 1, !.pc = "load_get"]]
    /\ UNCHANGED <<players_db, tvars, pending, game_history, issued>>

\* load_roster, lines 77-87: the document of entry i is read; a participant
\* that has one is loaded from it
LoadGet(t) ==
    /\ th[t].pc = "load_get"
    /\ LET p == th[t].roster[th[t].i]
           doc == players_db[p["ign"]]
       IN th' = [th EXCEPT ![t] =
                  IF doc.exists
                  THEN NextEntry([@ EXCEPT !.loaded =
                                     Append(@, LoadedPlayer(p, doc))])
                  ELSE [@ EXCEPT !.pc = "load_set"]]
    /\ UNCHANGED <<players_db, tvars, pending, game_history, issued>>

\* load_roster, lines 89-119: the seed is computed and doc_ref.set writes it
LoadSet(t) ==
    /\ th[t].pc = "load_set"
    /\ LET p == th[t].roster[th[t].i]
       IN /\ players_db' = [players_db EXCEPT ![p["ign"]] = SeedDoc(p)]
          /\ th' = [th EXCEPT ![t] =
                      NextEntry([@ EXCEPT !.loaded =
                                    Append(@, LoadedPlayer(p, Absent))])]
    /\ UNCHANGED <<tvars, pending, game_history, issued>>

SeedNames == {NameOf(0), NameOf(1)}

\* a roster entry without a "rank" key, and one whose rank text has the words
\* given; both with no role preference, so that no role of the seed is penalised
UnrankedEntry(name) ==
    ("ign" :> name) @@ ("primary role" :> "Fill") @@ ("secondary role" :> "Fill")

RankedEntry(words, name) == ("rank" :> words) @@ UnrankedEntry(name)

\* rank texts without a division word or with a tier outside the table
OddRanks == {<<"Silver">>, <<"Gold">>, <<"Unranked">>}

\* rosters of one or two entries: the first of any kind, the second of kind 1;
\* and rosters of one entry with no rank or an odd one
SeedRosters ==
    {<<Entry(k, NameOf(0))>> : k \in 1..NumKinds} \cup
    {<<Entry(k, NameOf(1)), Entry(1, NameOf(0))>> : k \in 1..NumKinds} \cup
    {<<UnrankedEntry(NameOf(1))>>} \cup
    {<<RankedEntry(words, NameOf(1))>> : words \in OddRanks}

InitSeed ==
    /\ players_db = [n \in SeedNames |-> Absent]
    /\ pending = <<>>
    /\ game_history = {}
    /\ issued = {}
    /\ th = [t \in Loaders |-> IdleThread]
    /\ NoTeamSearch

NextSeed ==
    \E t \in Loaders :
        \/ \E roster \in SeedRosters : StartLoad(t, roster)
        \/ LoadGet(t)
        \/ LoadSet(t)

SpecSeed == InitSeed /\ [][NextSeed]_vars

-----------------------------------------------------------------------------
(* Team selection: what the claims speak about *)

\* the two label-free halves of a split
Partition(team1_indices) ==
    {Range(team1_indices), (0..(ROSTER_SIZE - 1)) \ Range(team1_indices)}

\* preference bonus of the spec: 300 for the primary role, 100 for the
\* secondary role, 0 otherwise
Bonus(player, role) ==
    IF role = player.primary THEN 300
    ELSE IF role = player.secondary THEN 100 ELSE 0

\* total score (rating plus bonus) when the i-th participant of
\* role_assignment plays role ROLES[col[i]]
ScoreOf(ra, col) ==
    SumSeq([i \in 1..5 |->
        ra[i].player.mmr_map[ROLES[col[i]]] + Bonus(ra[i].player, ROLES[col[i]])])

\* total score of the assignment itself
ChosenScore(ra) ==
    SumSeq([i \in 1..Len(ra) |-> ra[i].mmr + Bonus(ra[i].player, ra[i].role)])

IsBijection(ra) ==
    /\ Len(ra) = 5
    /\ {ra[i].role : i \in 1..Len(ra)} = Range(ROLES)
    /\ Cardinality({ra[i].player.name : i \in 1..Len(ra)}) = 5

OffroleCount(ra) ==
    Cardinality({i \in 1..Len(ra) :
        MaxSeq([j \in 1..5 |-> ra[i].player.mmr_map[ROLES[j]]]) - ra[i].mmr >= 500})

TotalOf(ra) == SumSeq([i \in 1..Len(ra) |-> ra[i].mmr])

ReturnedTeams == pc = "done" /\ result.kind = "teams"

ReturnedOffroleDiff ==
    Abs(OffroleCount(result.assignment[1]) - OffroleCount(result.assignment[2]))

ReturnedGap ==
    Abs(TotalOf(result.assignment[1]) - TotalOf(result.assignment[2]))

\* gap, offroleDiff and off-role counts of every split of team_splits
AllEvals ==
    [k \in 1..Len(team_splits) |->
        The({[delta |-> e.delta, offrole_diff |-> e.offrole_diff,
              off1 |-> e.t1.offrole_count, off2 |-> e.t2.offrole_count,
              team1 |-> {e.t1.role_assignment[i].player.name : i \in 1..5}]
            : e \in {EvalTeams(players, team_splits[k][2], tie)}})]

\* (offroleDiff, gap) of a is ranked before that of b
RankedBefore(a, b) ==
    \/ a.offrole_diff < b.offrole_diff
    \/ a.offrole_diff = b.offrole_diff /\ a.delta < b.delta

\* the choice of an evaluation of all of evs without early termination: the
\* first split that no other split is ranked before
ExhaustiveChoice(all) ==
    The({evs[CHOOSE k \in 1..Len(evs) :
                /\ \A h \in 1..Len(evs) : ~RankedBefore(evs[h], evs[k])
                /\ \A h \in 1..(k - 1) : RankedBefore(evs[k], evs[h])]
        : evs \in {all}})

ReturnedTeam1 == {result.assignment[1][i].player.name : i \in 1..5}

-----------------------------------------------------------------------------
(* assign_roles_optimally called on a team of five profiles, and on the same
   team after one rating of one of them has been raised *)

NumRaises == 3

\* a rating map that is 1000 but for TOP and JUNGLE
FlatMap(top, jungle) ==
    [r \in {ROLES[j] : j \in 1..Len(ROLES)} |->
        IF r = "TOP" THEN top ELSE IF r = "JUNGLE" THEN jungle ELSE 1000]

TopRatings == {900, 1000, 2000}
JungleRatings == {1000, 1250}
OtherTopRatings == {1000, 1500, 2500}

\* teams whose first two profiles have ratings that vary; the other three
\* prefer MID, ADC and SUPPORT
CallTeam(top, jungle, other_top) ==
    <<Player("a", "TOP", "JUNGLE", FlatMap(top, jungle)),
      Player("b", "FILL", "FILL", FlatMap(other_top, 1000)),
      Player("c", "MID", "FILL", FlatMap(1000, 1000)),
      Player("d", "ADC", "FILL", FlatMap(1000, 1000)),
      Player("e", "SUPPORT", "FILL", FlatMap(1000, 1000))>>

CallTeams ==
    {CallTeam(top, jungle, other_top) :
        top \in TopRatings, jungle \in JungleRatings, other_top \in OtherTopRatings}

Bumps ==
    [player : {1, 2}, role : {"TOP", "JUNGLE"},
     delta : {100 * k : k \in 1..NumRaises}]

\* the team with the one rating raised: the profile is built again, so its
\* best rating follows
Raised(tm, b) ==
    [i \in 1..Len(tm) |->
        IF i = b.player
        THEN Player(tm[i].name, tm[i].primary, tm[i].secondary,
                    [tm[i].mmr_map EXCEPT ![b.role] = @ + b.delta])
        ELSE tm[i]]

InitAssign ==
    /\ players_db = <<>>
    /\ roster_json = <<>>
    /\ tie \in TiePolicies
    /\ pc = "idle"
    /\ players = <<>>
    /\ team_splits = <<>>
    /\ split_i = 0
    /\ best_assignment = None
    /\ best_delta = Inf
    /\ best_totals = <<0, 0>>
    /\ best_offrole_diff = Inf
    /\ checked = 0
    /\ valid_found = 0
    /\ last_eval = None
    /\ result = None
    /\ pending = <<>>
    /\ game_history = {}
    /\ issued = {}
    /\ th = <<>>
    /\ call_team \in CallTeams
    /\ bump \in Bumps
    /\ assigned = None
    /\ assigned_raised = None

Assign ==
    /\ assigned = None
    /\ assigned' = assign_roles_optimally(call_team, tie)
    /\ UNCHANGED <<players_db, roster_json, tie, pc, players, team_splits, split_i,
                   best_assignment, best_delta, best_totals, best_offrole_diff,
                   checked, valid_found, last_eval, result, svars, call_team, bump,
                   assigned_raised>>

AssignRaised ==
    /\ assigned_raised = None
    /\ assigned_raised' = assign_roles_optimally(Raised(call_team, bump), tie)
    /\ UNCHANGED <<players_db, roster_json, tie, pc, players, team_splits, split_i,
                   best_assignment, best_delta, best_totals, best_offrole_diff,
                   checked, valid_found, last_eval, result, svars, call_team, bump,
                   assigned>>

NextAssign == Assign \/ AssignRaised

SpecAssign == InitAssign /\ [][NextAssign]_vars

-----------------------------------------------------------------------------
(* find_best_teams on rosters whose search replaces its best candidate *)

\* the roster whose k-th entry is of kind kinds[k]
RosterOfKinds(kinds) == [k \in 1..Len(kinds) |-> Entry(kinds[k], NameOf(k - 1))]

\* rosters on which the loop stops at its 6th, 22nd and 57th split, and one
\* on which it runs to the last split after its second split, of a smaller
\* off-role difference and a larger gap, has replaced the first; on each the
\* best candidate is replaced
SearchRosters ==
    {MakeRoster(1, 1, 2, 3), MakeRoster(3, 1, 2, 4), MakeRoster(3, 1, 1, 3),
     RosterOfKinds(<<5, 5, 2, 3, 4, 5, 5, 5, 1, 3>>)}

InitSearch ==
    /\ players_db = [n \in Names |-> Absent]
    /\ roster_json \in SearchRosters
    /\ tie \in TiePolicies
    /\ pc = "run"
    /\ players = <<>>
    /\ team_splits = <<>>
    /\ split_i = 0
    /\ best_assignment = None
    /\ best_delta = Inf
    /\ best_totals = <<0, 0>>
    /\ best_offrole_diff = Inf
    /\ checked = 0
    /\ valid_found = 0
    /\ last_eval = None
    /\ result = None
    /\ pending = <<>>
    /\ game_history = {}
    /\ issued = {}
    /\ th = <<>>
    /\ NoAssignCall

NextSearch == RunLoad \/ EvalSplit \/ Return

SpecSearch == InitSearch /\ [][NextSearch]_vars

-----------------------------------------------------------------------------
(* C1 *)

\* C1 (as claimed): the splits that team selection enumerates are the 126
\* distinct 5-vs-5 partitions, each exactly once: no two enumerated splits
\* are equal after swapping the two team labels.
C1_EachPartitionOnce ==
    pc = "loop" =>
        /\ Len(team_splits) = 126
        /\ \A a, b \in 1..Len(team_splits) :
              a # b => Partition(team_splits[a][2]) # Partition(team_splits[b][2])

-----------------------------------------------------------------------------
(* C2 *)

\* C2: the assignment assign_roles_optimally chooses for a team of 5 is a
\* bijection whose total score (rating plus preference bonus) is at least
\* the total score of every role-to-participant bijection of that team.
C2_AssignmentOptimal ==
    last_eval # None =>
        \A ra \in {last_eval.t1.role_assignment, last_eval.t2.role_assignment} :
            /\ IsBijection(ra)
            /\ \A chosen \in {ChosenScore(ra)} :
                  \A k \in 1..Len(PermSeq) : chosen >= ScoreOf(ra, PermSeq[k])

\* a team was assigned and some other bijection scores strictly less
C2_Witness ==
    /\ last_eval # None
    /\ \E k \in 1..Len(PermSeq) :
          ScoreOf(last_eval.t1.role_assignment, PermSeq[k])
              < ChosenScore(last_eval.t1.role_assignment)

-----------------------------------------------------------------------------
(* C3 *)

\* C3 (as claimed): team selection never returns a split in which a team
\* has more than 2 off-role participants.
C3_OffroleCap ==
    ReturnedTeams =>
        /\ OffroleCount(result.assignment[1]) <= 2
        /\ OffroleCount(result.assignment[2]) <= 2

-----------------------------------------------------------------------------
(* C4 *)

-----------------------------------------------------------------------------
(* C5 *)

\* C5 (as claimed): the split and the gap find_best_teams returns are those
\* chosen by evaluating all splits exhaustively with the same ranking rule.
C5_SameAsExhaustive ==
    ReturnedTeams =>
        \A ex \in {ExhaustiveChoice(AllEvals)} :
            /\ result.gap = ex.delta
            /\ ReturnedTeam1 = ex.team1

\* C5 (amended): when the search evaluates every split, the split and the
\* gap returned are those of the exhaustive evaluation; when it stops
\* early, the returned split has offroleDiff = 0, as the exhaustive choice
\* has, and a gap of at most 100 that is not below the exhaustive gap.
C5_SameUpToEarlyExit ==
    ReturnedTeams =>
        \A ex \in {ExhaustiveChoice(AllEvals)} :
            IF checked = Len(team_splits)
            THEN /\ result.gap = ex.delta
                 /\ ReturnedTeam1 = ex.team1
            ELSE /\ ReturnedOffroleDiff = 0
                 /\ ex.offrole_diff = 0
                 /\ ex.delta <= result.gap
                 /\ result.gap <= 100

\* the search stopped early on a gap that is not the smallest
C5_Witness ==
    /\ ReturnedTeams
    /\ checked < Len(team_splits)
    /\ result.gap > 0

-----------------------------------------------------------------------------
(* C6 *)

\* C6 (as claimed): when every split of the roster is excluded by the
\* fairness constraints (a team with more than 2 off-role participants, or
\* offroleDiff # 0), team selection fails and returns no assignment.
C6_NoValidSplit ==
    pc = "done" =>
        \A evs \in {AllEvals} :
            (\A k \in 1..Len(evs) :
                \/ evs[k].off1 > 2
                \/ evs[k].off2 > 2
                \/ evs[k].offrole_diff # 0)
            => result.kind = "error"

-----------------------------------------------------------------------------
(* Rating update: what the claims speak about *)

\* floor(x / 100), by its definition
Floor100(x) == CHOOSE q \in -100..100 : 100 * q <= x /\ x < 100 * (q + 1)

Clamp(lo, hi, x) == IF x < lo THEN lo ELSE IF x > hi THEN hi ELSE x

\* the rating the store holds for a participant in a role
Stored(ign, role) == players_db[ign].mmr_map[role]

\* the pairs <<winner, loser>> of a stored outcome that played the same role
Pairs(doc) ==
    {<<doc.winning_team[k], doc.losing_team[j]>> :
        <<k, j>> \in {kj \in (DOMAIN doc.winning_team) \X (DOMAIN doc.losing_team) :
                        doc.winning_team[kj[1]].role = doc.losing_team[kj[2]].role}}

\* a participant the outcome names that has no profile in the store
NamesMissing(thread) ==
    \E k \in DOMAIN (thread.winning_team \o thread.losing_team) :
        ~players_db[(thread.winning_team \o thread.losing_team)[k].ign].exists

C8_NoPartialMutation ==
    \A t \in DOMAIN th :
        (th[t].pc = "finish" /\ ~th[t].success) => th[t].updated = {}

(* C9 *)
\* An upload whose outcome names a participant without a profile produces no
\* delta map, ends with the players-not-found message, stores no pending
\* confirmation, and none of its steps changes the store.
C9_MissingParticipant ==
    /\ [](\A t \in DOMAIN th :
            (th[t].kind = "upload" /\ NamesMissing(th[t])) =>
                /\ th[t].pc \in {"calc_get", "done"}
                /\ th[t].mmr_changes = None
                /\ th[t].pc = "done" => th[t].outcome = "players_not_found"
                /\ ~pending[t].exists
                /\ t \notin issued)
    /\ [][\A t \in DOMAIN th :
            (th'[t] # th[t] /\ th'[t].kind = "upload" /\ NamesMissing(th'[t])) =>
                /\ players_db' = players_db
                /\ pending' = pending
                /\ game_history' = game_history]_vars

\* an upload naming an unknown loser has ended with the message, after another
\* match was stored for confirmation
C9_Witness ==
    \E t \in DOMAIN th :
        /\ th[t].kind = "upload"
        /\ th[t].outcome = "players_not_found"
        /\ \E k \in DOMAIN th[t].losing_team :
              ~players_db[th[t].losing_team[k].ign].exists
        /\ \E id \in DOMAIN pending : pending[id].exists

(* C10 *)
\* Once a participant's profile is in the store, no step of any roster load
\* replaces it.
C10_SeedNeverOverwrites ==
    [][\A n \in DOMAIN players_db :
          players_db[n].exists => players_db'[n] = players_db[n]]_vars

(* C11 *)
\* Every step that changes a stored rating is a step of a thread handling a
\* confirm; no step of an upload or of a cancel changes the players collection.
C11_OnlyConfirmChangesRatings ==
    [][/\ players_db' # players_db =>
            \E t \in DOMAIN th : th'[t] # th[t] /\ th[t].kind = "confirm_results"
       /\ \A t \in DOMAIN th :
            (th'[t] # th[t] /\ th'[t].kind \in {"upload", "cancel_results"}) =>
                players_db' = players_db]_vars

\* ratings have been changed in a run in which a cancel was handled as well
C11_Witness ==
    /\ players_db # ResultsDb
    /\ \E t \in DOMAIN th : th[t].outcome = "cancelled"
    /\ \E t \in DOMAIN th : th[t].outcome = "awaiting_confirmation"

(* C12 *)
\* A write of commit_results_to_firestore to a participant's profile leaves
\* the ratings of all roles other than the role played as they were in the
\* store before the write.
C12_OnlyPlayedRoleChanges ==
    [][\A t \in DOMAIN th :
          (th[t].pc = "commit_update" /\ th'[t] # th[t]) =>
              LET n == th[t].player_name
                  role == th[t].confirmation_data.mmr_changes[n].role
              IN \A r \in DOMAIN players_db[n].mmr_map :
                    r # role =>
                        players_db'[n].mmr_map[r] = players_db[n].mmr_map[r]]_vars

(* C13 *)
\* Every profile in the store has a rating map with exactly the five entries
\* TOP, JUNGLE, MID, ADC and SUPPORT.
C13_FiveRatings ==
    \A n \in DOMAIN players_db :
        players_db[n].exists => DOMAIN players_db[n].mmr_map = Range(ROLES)

\* an outcome is malformed when a participant's role is outside the five roles
\* or when no winner has a loser of the same role
Malformed(thread) ==
    \/ \E k \in DOMAIN (thread.winning_team \o thread.losing_team) :
          (thread.winning_team \o thread.losing_team)[k].role \notin Range(ROLES)
    \/ Pairs(thread) = {}

(* C14 *)
\* An upload with a malformed outcome fails: it never gets as far as storing
\* a pending confirmation and it produces no rating changes.
C14_MalformedOutcomeFails ==
    \A t \in DOMAIN th :
        (th[t].kind = "upload" /\ Malformed(th[t])) =>
            /\ th[t].pc # "store"
            /\ th[t].outcome # "awaiting_confirmation"
            /\ ~pending[t].exists

\* the losers of a stored outcome that played the role of winner w
SameRoleLosers(doc, w) ==
    {doc.losing_team[j] : j \in {j \in DOMAIN doc.losing_team :
                                    doc.losing_team[j].role = w.role}}

(* C15 *)
\* An upload of registered participants in which some winner has no loser of
\* the same role does not fail: it ends awaiting confirmation, its delta map
\* has no entry for that winner, and every winner that has a same-role loser
\* has its gain and that loser the loss of 25.
C15_UnpairedWinnerSkipped ==
    \A t \in DOMAIN th :
        (/\ th[t].kind = "upload" /\ th[t].pc = "done"
         /\ th[t].outcome # "analysis_failed"
         /\ ~NamesMissing(th[t])) =>
            /\ th[t].outcome = "awaiting_confirmation"
            /\ pending[t].exists
            /\ \A k \in DOMAIN th[t].winning_team :
                  LET w == th[t].winning_team[k]
                      ls == SameRoleLosers(pending[t], w)
                      changes == pending[t].mmr_changes
                  IN IF ls = {}
                     THEN w.ign \notin DOMAIN changes
                     ELSE /\ w.ign \in DOMAIN changes
                          /\ changes[w.ign].change >= 25
                          /\ \A l \in ls : /\ l.ign \in DOMAIN changes
                                           /\ changes[l.ign].change = -25

\* a stored outcome with a skipped winner next to a rated pair
C15_Witness ==
    \E t \in DOMAIN th :
        /\ th[t].outcome = "awaiting_confirmation"
        /\ pending[t].exists
        /\ \E k \in DOMAIN th[t].winning_team :
              /\ SameRoleLosers(pending[t], th[t].winning_team[k]) = {}
              /\ th[t].winning_team[k].ign \notin DOMAIN pending[t].mmr_changes
        /\ \E k \in DOMAIN th[t].winning_team :
              /\ SameRoleLosers(pending[t], th[t].winning_team[k]) # {}
              /\ pending[t].mmr_changes[th[t].winning_team[k].ign].change >= 25

(* C16 *)
\* A create_teams command whose roster is not of exactly 10 entries never
\* enters the team search, holds no assignment, and ends with the error that
\* the roster must contain exactly 10 players.
C16_WrongSizeFails ==
    Len(roster_json) # 10 =>
        /\ pc \in {"run", "done"}
        /\ best_assignment = None
        /\ pc = "done" =>
              result = ErrorResult("Roster must contain exactly 10 players.")

\* a roster of eleven was refused after its participants had been loaded
C16_Witness ==
    /\ Len(roster_json) = 11
    /\ players_db[NameOf(10)].exists
    /\ pc = "done"
    /\ result.kind = "error"

(* C17 *)
\* the rating the seed of a roster entry starts from: the base of its tier,
\* or of the middle tier when the entry has no rank or its tier is not in the
\* table, plus the offset of its division, or 0 when the division is absent
\* or not one of 1-4
SeedBaseWithZeroDefault(p) ==
    LET words == DictGet(p, "rank", <<>>)
        known == words # <<>> /\ Upper(words[1]) \in DOMAIN RANK_MMR_DEFAULTS
        tier == IF known THEN Upper(words[1]) ELSE "SILVER"
        offset == IF known /\ Len(words) > 1 /\ words[2] \in DOMAIN DIVISION_OFFSET
                  THEN DIVISION_OFFSET[words[2]]
                  ELSE 0
    IN RANK_MMR_DEFAULTS[tier] + offset

\* Every step that seeds a participant writes a profile whose highest rating
\* (the rating of the roles without penalty) is the tier base plus the division
\* offset, where an absent or out-of-table division counts 0 and an entry with
\* no parsable rank counts as the middle tier at its lowest division.
C17_SeedDefaultsToLowestDivision ==
    [][\A t \in DOMAIN th :
          (th[t].pc = "load_set" /\ th'[t] # th[t]) =>
              LET p == th[t].roster[th[t].i]
                  seeded == players_db'[p["ign"]].mmr_map
                  base == SeedBaseWithZeroDefault(p)
              IN /\ \E r \in DOMAIN seeded : seeded[r] = base
                 /\ \A r \in DOMAIN seeded : seeded[r] <= base]_vars

(* C18 *)
\* the roster entry of a participant
EntryOf(name) ==
    roster_json[CHOOSE k \in 1..Len(roster_json) : roster_json[k]["ign"] = name]

\* the five players sync_players makes of the roster entries of the team
\* that role_assignment assigns, in the same order
V1_TeamOf(role_assignment) ==
    [i \in 1..TEAM_SIZE |->
        V1_LoadedPlayer(EntryOf(role_assignment[i].player.name),
                        players_db[role_assignment[i].player.name])]

\* For every team of 5 the search over the 120 permutations and the
\* matching-based optimiser give every participant the same role and report
\* the same team total.
C18_SearchAndMatchingAgree ==
    last_eval # None =>
        \A side \in {last_eval.t1, last_eval.t2} :
            \A searched \in {calculate_best_roles_for_team(
                                 V1_TeamOf(side.role_assignment))} :
                /\ \A i, j \in 1..TEAM_SIZE :
                      searched.assignment[j].p.name
                          = side.role_assignment[i].player.name =>
                      Upper(searched.assignment[j].role)
                          = side.role_assignment[i].role
                /\ searched.total_mmr = side.total_mmr

(* C19 *)
\* both calls have returned
BothAssigned == assigned # None /\ assigned_raised # None

\* Raising one participant's rating for one role, all else equal, does not
\* lower the total rating assign_roles_optimally reports for the team.
C19_ReportedTotalMonotone ==
    BothAssigned => assigned_raised.total_mmr >= assigned.total_mmr

\* Raising one participant's rating for one role, all else equal, does not
\* lower the total score (ratings plus preference bonuses) of the assignment
\* assign_roles_optimally chooses for the team.
C19_OptimalScoreMonotone ==
    BothAssigned =>
        ChosenScore(assigned_raised.role_assignment)
            >= ChosenScore(assigned.role_assignment)

\* a rating was raised, the participant plays that role after the raise, and
\* the score of the chosen assignment went up
C19_Witness ==
    /\ BothAssigned
    /\ bump.delta > 0
    /\ assigned_raised.role_assignment[bump.player].role = bump.role
    /\ ChosenScore(assigned_raised.role_assignment)
          > ChosenScore(assigned.role_assignment)

(* C20 *)
\* best rating minus the rating of the role played is at least 500
TrailsBest(entry) ==
    \E best \in {entry.player.mmr_map[r] : r \in DOMAIN entry.player.mmr_map} :
        /\ \A r \in DOMAIN entry.player.mmr_map : entry.player.mmr_map[r] <= best
        /\ best - entry.player.mmr_map[entry.role] >= 500

\* the rating map of the example: TOP 2000 and 1000 for the other four roles
ExampleMap == [r \in {"TOP", "JUNGLE", "MID", "ADC", "SUPPORT"} |->
                  IF r = "TOP" THEN 2000 ELSE 1000]

OffroleCountedRight(res) ==
    res # None =>
        /\ \A i \in 1..Len(res.role_assignment) :
              is_offrole(res.role_assignment[i].player, res.role_assignment[i].role)
                  <=> TrailsBest(res.role_assignment[i])
        /\ res.offrole_count =
              Cardinality({i \in 1..Len(res.role_assignment) :
                              TrailsBest(res.role_assignment[i])})
        /\ \A i \in 1..Len(res.role_assignment) :
              res.role_assignment[i].player.mmr_map = ExampleMap =>
                  /\ res.role_assignment[i].role = "JUNGLE" =>
                        is_offrole(res.role_assignment[i].player, "JUNGLE")
                  /\ res.role_assignment[i].role = "TOP" =>
                        ~is_offrole(res.role_assignment[i].player, "TOP")

\* A participant is off-role in the role assigned exactly when the best
\* rating exceeds the rating of that role by 500 or more, and the off-role
\* count of the team is the number of such participants; a participant with
\* TOP 2000 and 1000 elsewhere is off-role at JUNGLE and not at TOP.
C20_OffroleAtThreshold ==
    OffroleCountedRight(assigned) /\ OffroleCountedRight(assigned_raised)

\* the participant of the example was assigned JUNGLE, another participant
\* having the higher TOP rating, and is the one off-role participant counted
C20_Witness ==
    /\ assigned # None
    /\ \E i \in 1..TEAM_SIZE :
          /\ assigned.role_assignment[i].player.mmr_map = ExampleMap
          /\ assigned.role_assignment[i].role = "JUNGLE"
          /\ is_offrole(assigned.role_assignment[i].player, "JUNGLE")
    /\ assigned.offrole_count = 1

(* C21 *)
\* gap, offroleDiff and first team of the splits the loop has evaluated
EvalsSoFar ==
    [k \in 1..checked |->
        The({[delta |-> e.delta, offrole_diff |-> e.offrole_diff,
              team1 |-> {e.t1.role_assignment[i].player.name : i \in 1..5}]
            : e \in {EvalTeams(players, team_splits[k][2], tie)}})]

\* the split evaluated last is ranked before every split evaluated earlier
LastIsNewBest(evs) ==
    \A h \in 1..(Len(evs) - 1) : RankedBefore(evs[Len(evs)], evs[h])

\* After each evaluated split the best candidate the loop holds is the first
\* of the splits evaluated so far that none of them is ranked before by
\* (offrole_diff, delta); and the loop has stopped before the last split
\* exactly when the split just evaluated became the best with delta <= 100
\* and offrole_diff = 0.
C21_BestOfEvaluated ==
    (pc \in {"loop", "return"} /\ checked > 0) =>
        \A evs \in {EvalsSoFar} :
            /\ \A ex \in {ExhaustiveChoice(evs)} :
                  /\ best_offrole_diff = ex.offrole_diff
                  /\ best_delta = ex.delta
                  /\ {best_assignment[1][i].player.name : i \in 1..5} = ex.team1
            /\ (pc = "return" /\ checked < Len(team_splits)) <=>
                  /\ checked < Len(team_splits)
                  /\ LastIsNewBest(evs)
                  /\ evs[checked].delta <= 100
                  /\ evs[checked].offrole_diff = 0

\* the loop has replaced a candidate by one of a smaller off-role difference
\* and a larger gap, has evaluated more splits since, and goes on
C21_Witness ==
    /\ pc = "loop"
    /\ valid_found >= 2
    /\ checked > valid_found
    /\ \A evs \in {EvalsSoFar} :
          /\ ~LastIsNewBest(evs)
          /\ \E h \in 1..Len(evs) :
                evs[h].delta < best_delta /\ evs[h].offrole_diff > best_offrole_diff

(* C22 *)
\* the confirm handlers that have written a rating or a game-history
\* record for the confirmation id
Committers(id) ==
    {t \in DOMAIN th :
        /\ th[t].kind = "confirm_results"
        /\ th[t].confirmation_id = id
        /\ \/ th[t].updated # {}
           \/ \E g \in game_history : g.game_id = t}

\* For every confirmation id, at most one confirm handler applies the
\* rating updates of the match and writes its game-history records.
C22_CommittedAtMostOnce ==
    \A id \in issued : Cardinality(Committers(id)) <= 1

(* C23 *)
\* a cancel handler has deleted the pending confirmation id and has answered
\* that the results are cancelled
CancelAcknowledged(id) ==
    \E u \in DOMAIN th :
        /\ th[u].kind = "cancel_results"
        /\ th[u].confirmation_id = id
        /\ th[u].pc = "done"
        /\ th[u].outcome = "cancelled"

\* Once the cancellation of a confirmation id has been acknowledged, no step
\* of a confirm handler of that id changes a stored rating.
C23_CancelledNeverCommitted ==
    [][\A t \in DOMAIN th :
          (/\ th[t].kind = "confirm_results"
           /\ th'[t] # th[t]
           /\ CancelAcknowledged(th[t].confirmation_id))
          => players_db' = players_db]_vars

(* C24 *)
\* No rating update is lost between pending matches: whenever a commit writes
\* a participant's profile while no other handler is running and no earlier
\* commit has failed, the rating stored afterwards for the role played equals
\* the rating stored immediately before the write plus the delta the match
\* holds for that participant.
OthersAtRest(t) ==
    \A u \in DOMAIN th : u # t => th[u].pc \in {"idle", "done"} /\ th[u].success

C24_CommitAddsDelta ==
    [][\A t \in DOMAIN th :
          (/\ th[t].pc = "commit_update"
           /\ th'[t].updated # th[t].updated
           /\ OthersAtRest(t))
          => LET n == th[t].player_name
                 change_data == th[t].confirmation_data.mmr_changes[n]
             IN players_db'[n].mmr_map[change_data.role] =
                    players_db[n].mmr_map[change_data.role] + change_data.change]_vars
====
